---- MODULE Spec2Model ----
(***************************************************************************)
(* The tool-calling chat handlers of the three Streamlit dashboards        *)
(* (Marketingapp.py, trial.py, V1.streamlit.py): one user question drives  *)
(* a bounded exchange with the model API, tool requests are answered from  *)
(* the fixtures of get_mock_data, and the answer is stored in the session. *)
(*                                                                         *)
(* One action covers the handler code between two I/O boundaries: Ask is   *)
(* the script run up to the first messages.create call, and ToolRound,     *)
(* ToolRoundFails and Finish are the return of one messages.create call    *)
(* together with everything the handler does until it issues the next call *)
(* or ends the script run.                                                 *)
(*                                                                         *)
(* Session entries that only feed the display (figures, dataframes, the    *)
(* tools_used set, total_response_time, show_followups) are left out. The  *)
(* system prompt of trial.py is represented by conversation_context, the   *)
(* only part of it that changes.                                           *)
(***************************************************************************)
EXTENDS Integers, Sequences, FiniteSets, TLC

VARIABLES
    app,            \* which of the three programs this session runs
    api_key,        \* sidebar text input "Claude API Key" is non-empty
    messages,       \* st.session_state.messages (the displayed history)
    api_messages,   \* st.session_state.api_messages (trial.py only)
    query_count,    \* st.session_state.query_count (Marketingapp.py, trial.py)
    last_input,     \* st.session_state.last_input (Marketingapp.py only)
    pc,             \* "idle": no script run in progress; "call": a messages.create call is outstanding;
                    \* "executed" / "projected": get_mock_data / a chart function was called on its own
    user_input,     \* the question of the current script run
    msgs,           \* local list `messages` / `api_msgs` submitted to the model
    response,       \* local `response`: the last value returned by messages.create
    iteration,      \* local `iteration`
    tools_called,   \* local `tools_called` / `tools_used`
    last_tool_name, \* local `last_tool_name` / `tool_name`
    last_tool_data, \* local `last_tool_data` / `tool_data` / `result`
    final_answer,   \* local `final_answer` / `answer`
    figures,        \* local `figures`: the charts projected from the last tool payload
    outcome,        \* what the script run showed: "none", "answer", "rejected", "ignored", "auth_error", "error"
    raised,         \* the exception that ended the script run, "none" if none
    last_exec,      \* the most recent get_mock_data invocation of this script run
    calls,          \* messages.create calls issued so far for the current question
    pre_messages,   \* st.session_state.messages when the current question was submitted
    pre_api,        \* st.session_state.api_messages when the current question was submitted
    cycles,         \* questions submitted so far in this session
    varied,         \* model responses outside the plain shapes so far in this session
    conversation_context, \* st.session_state.conversation_context (trial.py only)
    last_button     \* the reset button pressed since the last finished cycle, "none" if none

vars == <<app, api_key, messages, api_messages, query_count, last_input, pc,
          user_input, msgs, response, iteration, tools_called, last_tool_name,
          last_tool_data, final_answer, outcome, raised, last_exec, calls,
          pre_messages, pre_api, cycles, varied, conversation_context, last_button,
          figures>>

session == <<messages, api_messages, query_count, last_input>>

(***************************************************************************)
(* Bounds of the model: questions per session, and model responses or     *)
(* errors outside the ordinary ones per session.                           *)
(***************************************************************************)
MaxCycles == 1
MaxVaried == 1
\* Questions asked in one session of the several-question specification.
MaxQuestions == 2

(***************************************************************************)
(* Program constants.                                                      *)
(***************************************************************************)
Apps == {"Marketingapp", "trial", "V1"}

MarketingappCap == 8
TrialCap == 5
V1Cap == 5
TrialWindow == 10

Cap(a) ==
    CASE a = "Marketingapp" -> MarketingappCap
      [] a = "trial" -> TrialCap
      [] OTHER -> V1Cap

\* Texts are sequences of characters; a fallback message is one symbol.
Fallback(a) ==
    CASE a = "Marketingapp" -> <<"I couldn't generate a response. Please try rephrasing.">>
      [] a = "trial" -> <<"See visualizations below.">>
      [] OTHER -> <<"No response">>

(***************************************************************************)
(* Tool registry (TOOLS) and the keys of the fixture table.                *)
(***************************************************************************)
RegistryNames(a) ==
    CASE a = "Marketingapp" ->
           {"get_lead_metrics", "get_conversion_funnel", "get_funnel_summary",
            "get_campaign_performance", "get_paid_media_performance",
            "get_email_engagement", "get_web_engagement", "get_content_engagement",
            "get_intent_signals", "get_account_engagement_scores",
            "get_form_performance", "get_pipeline_metrics", "get_converted_accounts",
            "get_channel_attribution", "get_account_360_view", "get_page_performance",
            "generate_campaign_brief", "detect_marketing_anomalies"}
      [] a = "trial" ->
           {"get_b2b_marketing_summary", "get_lead_metrics", "get_intent_signals",
            "get_account_360_view", "get_conversion_funnel", "get_high_bounce_pages",
            "get_pages_to_sunset", "get_accounts_to_reach_out",
            "get_paid_media_performance", "get_channel_attribution",
            "detect_marketing_anomalies", "generate_campaign_brief",
            "get_pathfactory_engagement"}
      [] OTHER ->
           {"q1_pages_never_viewed", "q2_forms_high_error_rate", "q3_high_bounce_pages",
            "q4_high_engagement_accounts", "q5_converted_accounts", "q6_paid_media_data",
            "q7_account_conversion_tracking", "q8_exit_pages"}

\* Keys of the dict literal inside get_mock_data.
MockNames(a) ==
    CASE a = "Marketingapp" ->
           {"get_lead_metrics", "get_conversion_funnel", "get_funnel_summary",
            "get_paid_media_performance", "get_intent_signals", "get_account_360_view",
            "get_channel_attribution", "generate_campaign_brief",
            "detect_marketing_anomalies"}
      [] OTHER -> RegistryNames(a)

(***************************************************************************)
(* Tool arguments: the `input` of a tool_use block. A JSON object with at  *)
(* most one key, JSON null, or a JSON string.                              *)
(***************************************************************************)
EmptyDict == [kind |-> "dict", key |-> "", val |-> ""]
DictOf(k, v) == [kind |-> "dict", key |-> k, val |-> v]
NullInput == [kind |-> "null", key |-> "", val |-> ""]
StrInput == [kind |-> "str", key |-> "", val |-> "x"]

IsMapping(inp) == inp.kind = "dict"

\* Python truthiness of the argument value.
Truthy(inp) ==
    CASE inp.kind = "dict" -> inp.key # ""
      [] inp.kind = "null" -> FALSE
      [] OTHER -> TRUE

\* A plausible slip: taking the value of whatever key the dict holds.
Get_any_key(inp, k, default) == IF inp.key # "" THEN inp.val ELSE default

\* dict.get(k, default)
Get(inp, k, default) == IF inp.key = k THEN inp.val ELSE default

(***************************************************************************)
(* Payloads: a dict with its key set and the first-column labels of the    *)
(* rows of its "data" entry, or (V1) a bare list of rows.                  *)
(***************************************************************************)
NoPayload == [kind |-> "none", keys |-> {}, data_kind |-> "none", data |-> <<>>]
DictPayload(ks, rows) == [kind |-> "dict", keys |-> ks, data_kind |-> "list", data |-> rows]
ListPayload(rows) == [kind |-> "list", keys |-> {}, data_kind |-> "list", data |-> rows]

MarketingappDefault == DictPayload({"data", "row_count"}, <<>>)
TrialDefault == DictPayload({"data"}, <<"Data retrieved">>)
V1Default == ListPayload(<<"executed">>)

DefaultPayload(a) ==
    CASE a = "Marketingapp" -> MarketingappDefault
      [] a = "trial" -> TrialDefault
      [] OTHER -> V1Default
(***************************************************************************)
(* get_mock_data: the fixture table of each program. The result is either  *)
(* a raised exception or a payload.                                        *)
(***************************************************************************)
Returned(p) == [raised |-> FALSE, payload |-> p]
Raise == [raised |-> TRUE, payload |-> NoPayload]

\* Marketingapp.py builds the whole dict literal on every call, so the two
\* entries that read tool_input.get(...) are evaluated for every tool name.
MarketingappMock(tool_name, tool_input) ==
    CASE tool_name = "get_lead_metrics" ->
           DictPayload({"data", "row_count"},
                       <<"DCIO", "DCIO", "Enterprise", "Enterprise", "Mid-Market">>)
      [] tool_name = "get_conversion_funnel" ->
           DictPayload({"data", "row_count"}, <<"DCIO", "Enterprise", "Mid-Market">>)
      [] tool_name = "get_funnel_summary" ->
           DictPayload({"data", "row_count"},
                       <<"Goldman Sachs", "JPMorgan Chase", "Morgan Stanley">>)
      [] tool_name = "get_paid_media_performance" ->
           DictPayload({"data", "row_count"}, <<"LinkedIn", "Google">>)
      [] tool_name = "get_intent_signals" ->
           DictPayload({"data", "row_count"},
                       <<"Goldman Sachs", "Fidelity Investments", "JPMorgan Chase">>)
      [] tool_name = "get_account_360_view" ->
           DictPayload({"data", "row_count"},
                       <<Get(tool_input, "company_name", "Goldman Sachs")>>)
      [] tool_name = "get_channel_attribution" ->
           DictPayload({"data", "row_count"},
                       <<"Email", "Paid Search", "Organic", "Paid Social", "Content">>)
      [] tool_name = "generate_campaign_brief" ->
           [kind |-> "dict",
            keys |-> {"brief_metadata", "historical_performance", "intent_signals",
                      "content_performance", "data", "row_count"},
            data_kind |-> "dict", data |-> <<"summary">>]
      [] tool_name = "detect_marketing_anomalies" ->
           DictPayload({"anomaly_summary", "email_performance_drops", "intent_spikes",
                        "engagement_gaps", "data", "row_count"},
                       <<"Performance Drops", "Intent Spikes", "Engagement Gaps">>)
      [] OTHER -> MarketingappDefault

\* trial.py guards both reads of tool_input with `if tool_input else`.
TrialMock(tool_name, tool_input) ==
    CASE tool_name = "get_b2b_marketing_summary" ->
           DictPayload({"data", "trend_data", "channel_breakdown", "segment_breakdown"},
                       <<"Total Leads", "MQLs", "SQLs", "Pipeline", "Win Rate">>)
      [] tool_name = "get_lead_metrics" ->
           DictPayload({"data", "quality_dist", "weekly"},
                       <<"DCIO", "DCIO", "Enterprise", "Enterprise", "Mid-Market">>)
      [] tool_name = "get_intent_signals" ->
           DictPayload({"data", "stage_dist", "topics"},
                       <<"Goldman Sachs", "JPMorgan Chase", "Vanguard", "BlackRock", "Fidelity">>)
      [] tool_name = "get_account_360_view" ->
           DictPayload({"data", "timeline", "comparison"},
                       <<IF Truthy(tool_input)
                           THEN Get(tool_input, "account_name", "Goldman Sachs")
                           ELSE "Goldman Sachs">>)
      [] tool_name = "get_conversion_funnel" ->
           DictPayload({"data", "segment_funnels", "velocity"},
                       <<"Visitors", "Known Leads", "Engaged", "MQLs", "SQLs",
                         "Opportunities", "Closed Won">>)
      [] tool_name = "get_high_bounce_pages" ->
           DictPayload({"data", "by_device"},
                       <<"/landing/ppc-q4", "/landing/email-nov", "/resources/old-guide">>)
      [] tool_name = "get_pages_to_sunset" ->
           DictPayload({"data"},
                       <<"/resources/archived/old-guide-2019",
                         "/products/discontinued/old-fund", "/solutions/legacy/outdated">>)
      [] tool_name = "get_accounts_to_reach_out" ->
           DictPayload({"data", "priority_breakdown"},
                       <<"Vanguard", "Fidelity", "State Street">>)
      [] tool_name = "get_paid_media_performance" ->
           DictPayload({"data", "platform_comp", "daily"},
                       <<"LinkedIn DCIO", "Google Search", "LinkedIn Retarget">>)
      [] tool_name = "get_channel_attribution" ->
           DictPayload({"data", "paths"}, <<"Email", "Organic", "Paid Search", "Social">>)
      [] tool_name = "detect_marketing_anomalies" ->
           DictPayload({"data", "summary"}, <<"Drop", "Spike", "Spike", "Gap">>)
      [] tool_name = "generate_campaign_brief" ->
           \* the row's campaign_name is "<target_segment> Q1 2025"
           DictPayload({"data", "target_accounts", "channel_mix", "expected_results"},
                       <<IF Truthy(tool_input)
                           THEN Get(tool_input, "target_segment", "DCIO")
                           ELSE "DCIO">>)
      [] tool_name = "get_pathfactory_engagement" ->
           DictPayload({"data", "by_type"}, <<"Goldman Sachs", "JPMorgan", "Vanguard">>)
      [] OTHER -> TrialDefault

V1Mock(tool_name) ==
    CASE tool_name = "q1_pages_never_viewed" ->
           ListPayload(<<"/pricing", "/case-study-old", "/discontinued-feature", "/legacy-blog">>)
      [] tool_name = "q2_forms_high_error_rate" ->
           ListPayload(<<"contact_form_v1", "newsletter_signup", "demo_request">>)
      [] tool_name = "q3_high_bounce_pages" ->
           ListPayload(<<"/blog/outdated-post", "/pricing-old", "/temp-campaign">>)
      [] tool_name = "q4_high_engagement_accounts" ->
           ListPayload(<<"TechCorp Inc", "Enterprise Solutions", "Growth Ventures">>)
      [] tool_name = "q5_converted_accounts" ->
           ListPayload(<<"Fortune 500 Corp", "Tech Startup LLC", "Industries Global">>)
      [] tool_name = "q6_paid_media_data" ->
           ListPayload(<<"Q4 LinkedIn Campaign", "Google Search - Enterprise",
                         "LinkedIn Retargeting">>)
      [] tool_name = "q7_account_conversion_tracking" ->
           ListPayload(<<"Global Tech Enterprises", "Digital Innovation Corp",
                         "Cloud Systems Inc">>)
      [] tool_name = "q8_exit_pages" ->
           ListPayload(<<"/pricing", "/solutions", "/resources/whitepaper">>)
      [] OTHER -> V1Default

\* A plausible slip: indexing the table (mock[tool_name]) instead of .get with a default.
get_mock_data_indexing(a, tool_name, tool_input) ==
    IF tool_name \notin MockNames(a) THEN Raise
    ELSE CASE a = "Marketingapp" ->
                IF ~IsMapping(tool_input) THEN Raise
                ELSE Returned(MarketingappMock(tool_name, tool_input))
           [] a = "trial" ->
                IF Truthy(tool_input) /\ ~IsMapping(tool_input) THEN Raise
                ELSE Returned(TrialMock(tool_name, tool_input))
           [] OTHER -> Returned(V1Mock(tool_name))

get_mock_data(a, tool_name, tool_input) ==
    CASE a = "Marketingapp" ->
           \* tool_input.get on a value that is no dict raises AttributeError
           IF ~IsMapping(tool_input) THEN Raise
           ELSE Returned(MarketingappMock(tool_name, tool_input))
      [] a = "trial" ->
           \* `... if tool_input else ...`: only a truthy non-dict reaches .get
           IF Truthy(tool_input) /\ ~IsMapping(tool_input) THEN Raise
           ELSE Returned(TrialMock(tool_name, tool_input))
      [] OTHER -> Returned(V1Mock(tool_name))

\* The number column of the rows of get_conversion_funnel: "count" per stage in
\* trial.py, "total_leads" per segment in Marketingapp.py.
FunnelCounts(a) ==
    IF a = "trial" THEN <<45000, 8500, 3200, 425, 156, 89, 28>> ELSE <<401, 501, 198>>

(***************************************************************************)
(* Content blocks and messages.                                            *)
(***************************************************************************)
TextBlock(t) ==
    [type |-> "text", text |-> t, id |-> 0, name |-> "", input |-> NullInput,
     content |-> NoPayload]
ToolUse(i, n, inp) ==
    [type |-> "tool_use", text |-> <<>>, id |-> i, name |-> n, input |-> inp,
     content |-> NoPayload]
\* {"type": "tool_result", "tool_use_id": id, "content": json.dumps(result)}
ToolResult(i, p) ==
    [type |-> "tool_result", text |-> <<>>, id |-> i, name |-> "", input |-> NullInput,
     content |-> p]

UserText(q) == [role |-> "user", form |-> "text", text |-> q, blocks |-> <<>>]
AssistantTurn(content) == [role |-> "assistant", form |-> "blocks", text |-> <<>>, blocks |-> content]
ToolResultTurn(results) == [role |-> "user", form |-> "blocks", text |-> <<>>, blocks |-> results]

\* Entries of st.session_state.messages: role and content. The figures, table and
\* tool list stored beside an answer are display data and are left out.
ShownUser(q) == [role |-> "user", content |-> q]
ShownAssistant(ans) == [role |-> "assistant", content |-> ans]

SelectBlocks(content, ty) == SelectSeq(content, LAMBDA b : b.type = ty)
ToolUses(content) == SelectBlocks(content, "tool_use")
HasToolUse(content) == \E i \in 1..Len(content) : content[i].type = "tool_use"

RECURSIVE JoinTexts(_)
\* "".join([b.text for b in content if hasattr(b, "text")])
JoinTexts(content) ==
    IF content = <<>> THEN <<>>
    ELSE (IF Head(content).type = "text" THEN Head(content).text ELSE <<>>)
         \o JoinTexts(Tail(content))

\* next((b.text for b in content if hasattr(b, "text")), default)
FirstText(content, default) ==
    LET texts == SelectBlocks(content, "text")
    IN IF texts = <<>> THEN default ELSE texts[1].text
(***************************************************************************)
(* What the model API may return. A response shape is a stop reason and a  *)
(* list of block kinds; the API numbers the tool_use blocks with fresh ids *)
(* when the response is produced. stop_reason is "tool_use" exactly when   *)
(* the model asks for tools; a response cut off by max_tokens may hold a   *)
(* tool_use block as well.                                                 *)
(***************************************************************************)
Questions == {<<"q1">>, <<"q2">>}
ModelErrors == {"AuthenticationError", "RateLimitError", "APIConnectionError"}
Unregistered == "get_weather_forecast"

ToolA(a) == IF a = "V1" THEN "q4_high_engagement_accounts" ELSE "get_intent_signals"
ToolB(a) == IF a = "V1" THEN "q5_converted_accounts" ELSE "get_account_360_view"

TextShapes == {<<>>, <<"T0">>, <<"Ta">>, <<"T0", "Ta">>, <<"Ta", "Ta">>}
ToolShapes == {<<"UA">>, <<"UB">>, <<"UC">>, <<"UU">>, <<"UX">>, <<"UY">>, <<"Ta", "UA">>,
               <<"UA", "UB">>, <<"UU", "UA">>}

\* Contents of a response cut off by max_tokens.
CutShapes == {<<>>, <<"Ta">>, <<"UA">>, <<"Ta", "UA">>}

\* Stop reasons the handlers do not name: a stop sequence, and one added to the
\* API later.
OtherStops == {"stop_sequence", "pause_turn"}

ResponseShapes ==
    ({"tool_use"} \X ToolShapes)
      \cup ({"end_turn"} \X TextShapes)
      \cup ({"max_tokens"} \X CutShapes)
      \cup (OtherStops \X {<<"Ta">>, <<"UA">>})

PlainShapes == {<<"tool_use", <<"UA">>>>, <<"end_turn", <<"Ta">>>>}

BlockOf(a, kind, i) ==
    CASE kind = "T0" -> TextBlock(<<>>)
      [] kind = "Ta" -> TextBlock(<<"a">>)
      [] kind = "UA" -> ToolUse(i, ToolA(a), EmptyDict)
      [] kind = "UB" -> ToolUse(i, ToolB(a), DictOf("account_name", "Acme Corp"))
      [] kind = "UC" -> ToolUse(i, ToolB(a), DictOf("company_name", "Initech"))
      [] kind = "UU" -> ToolUse(i, Unregistered, EmptyDict)
      [] kind = "UY" -> ToolUse(i, Unregistered, StrInput)
      [] OTHER -> ToolUse(i, ToolB(a), StrInput)

ResponseOf(a, rs, base) ==
    [stop_reason |-> rs[1],
     content |-> [i \in 1..Len(rs[2]) |-> BlockOf(a, rs[2][i], base + i)]]

NoResponse == [stop_reason |-> "none", content |-> <<>>]
NoExec == [name |-> "", input |-> NullInput, id |-> 0, raised |-> FALSE, payload |-> NoPayload]

(***************************************************************************)
(* The tool loop.                                                          *)
(***************************************************************************)
\* A plausible slip: `iteration <= cap`.
LoopContinues_inclusive(a, r, it) ==
    /\ r.stop_reason = "tool_use"
    /\ it <= Cap(a)

\* while response.stop_reason == "tool_use" and iteration < cap
LoopContinues(a, r, it) ==
    /\ r.stop_reason = "tool_use"
    /\ it < Cap(a)

\* The tool_use blocks one pass of the loop body hands to get_mock_data:
\* V1 takes the first one only (next(...)), the others iterate over all.
ExecutedUses(a, content) ==
    LET uses == ToolUses(content)
    IN IF a = "V1" THEN SubSeq(uses, 1, IF uses = <<>> THEN 0 ELSE 1) ELSE uses

Exec(a, use) == get_mock_data(a, use.name, use.input)

\* Index of the first request whose execution raises, 0 if none does.
FirstRaise(a, uses) ==
    LET bad == {i \in 1..Len(uses) : Exec(a, uses[i]).raised}
    IN IF bad = {} THEN 0 ELSE CHOOSE i \in bad : \A j \in bad : i <= j

ResultsOf(a, uses) ==
    [i \in 1..Len(uses) |-> ToolResult(uses[i].id, Exec(a, uses[i]).payload)]

RECURSIVE PairedTurns(_, _)
\* trial.py appends inside the for loop: the response and one result per request.
PairedTurns(content, results) ==
    IF results = <<>> THEN <<>>
    ELSE <<AssistantTurn(content), ToolResultTurn(<<Head(results)>>)>>
         \o PairedTurns(content, Tail(results))

\* The turns one pass of the loop body appends to the submitted list.
RoundTurns(a, content, results) ==
    IF a = "trial" THEN PairedTurns(content, results)
    ELSE <<AssistantTurn(content), ToolResultTurn(results)>>

NamesOf(uses) == [i \in 1..Len(uses) |-> uses[i].name]

\* A plausible slip: recording the tool after the loop, so only the last one is kept.
RecordTools_last_only(a, called, uses) ==
    IF a = "V1" \/ uses = <<>> THEN called
    ELSE Append(called, uses[Len(uses)].name)

\* A plausible slip: inserting at the front of the list.
RecordTools_prepend(a, called, uses) ==
    IF a = "V1" THEN called ELSE NamesOf(uses) \o called

\* tools_called.append(tool_use.name) / tools_used.append(tb.name), before each execution
RecordTools(a, called, uses) ==
    IF a = "V1" THEN called ELSE called \o NamesOf(uses)

ExecRecord(a, use) ==
    [name |-> use.name, input |-> use.input, id |-> use.id,
     raised |-> Exec(a, use).raised, payload |-> Exec(a, use).payload]

(***************************************************************************)
(* The final answer.                                                       *)
(***************************************************************************)
\* A plausible slip: no fallback.
FinalAnswer_no_fallback(a, content) ==
    IF a = "V1" THEN FirstText(content, Fallback(a)) ELSE JoinTexts(content)

FinalAnswer(a, content) ==
    CASE a = "V1" -> FirstText(content, Fallback(a))
      [] OTHER -> IF JoinTexts(content) = <<>> THEN Fallback(a) ELSE JoinTexts(content)

\* A plausible slip: a window of an odd number of turns.
Window_odd(log) ==
    IF Len(log) <= TrialWindow - 1 THEN log
    ELSE SubSeq(log, Len(log) - TrialWindow + 2, Len(log))

\* api_messages[-10:]
Window(log) ==
    IF Len(log) <= TrialWindow THEN log
    ELSE SubSeq(log, Len(log) - TrialWindow + 1, Len(log))
(***************************************************************************)
(* Result projection: create_enhanced_visualization (Marketingapp.py) and  *)
(* create_visualizations (trial.py). A chart is its tab name and, for a    *)
(* funnel, its traces; the figure objects themselves are left out. Both    *)
(* functions catch every exception of their body, so they always return.   *)
(***************************************************************************)
EmptyPayload == [kind |-> "dict", keys |-> {}, data_kind |-> "none", data |-> <<>>]

\* Arguments a tool is executed with.
ToolInputs ==
    {EmptyDict, NullInput, StrInput, DictOf("account_name", "Acme Corp"),
     DictOf("company_name", "Initech")}

\* Python truthiness of a payload.
PayloadTruthy(p) ==
    CASE p.kind = "dict" -> p.keys # {}
      [] p.kind = "list" -> p.data # <<>>
      [] OTHER -> FALSE

HasKey(p, k) == p.kind = "dict" /\ k \in p.keys

\* data.get(k, []) is truthy: every list of a fixture but the default "data" of
\* Marketingapp.py is non-empty.
KeyTruthy(p, k) == HasKey(p, k) /\ (k = "data" => p.data # <<>>)

\* Tools whose fixture rows carry the columns the branch of tool_name reads.
SameColumns(tool_name) ==
    IF tool_name \in {"get_high_bounce_pages", "get_pages_to_sunset"}
    THEN {"get_high_bounce_pages", "get_pages_to_sunset"}
    ELSE {tool_name}

\* The payload has the rows the branch of tool_name expects: it is what the
\* program's own get_mock_data returns for that tool. On any other rows the
\* column access of the branch raises KeyError or ValueError.
Fits(a, tool_name, p) ==
    \E n \in SameColumns(tool_name) \cap MockNames(a) : \E inp \in ToolInputs :
        get_mock_data(a, n, inp) = Returned(p)

\* Every fixture row has a text column and a number column; the default row of
\* trial.py has the single column "info".
MixedColumns(p) == p # TrialDefault

Chart(name) == [name |-> name, traces |-> <<>>]
Trace(name, y) == [name |-> name, y |-> y]

\* Marketingapp.py lines 1052-1061: one go.Funnel trace per row, over fixed stages.
SegmentFunnel(rows) ==
    [name |-> "Funnel",
     traces |-> [i \in 1..Len(rows) |->
                   Trace(rows[i], <<"Leads", "MQLs", "Opportunities", "Closed Won">>)]]

\* A plausible slip: plotting the rows in another order than the payload's (here
\* rotated by one, as a sort by another column would).
StageFunnel_reordered(rows) ==
    [name |-> "Funnel",
     traces |-> <<Trace("", IF rows = <<>> THEN rows ELSE Tail(rows) \o <<Head(rows)>>)>>]

\* trial.py line 280: go.Funnel(y=df['stage'], x=df['count']).
StageFunnel(rows) == [name |-> "Funnel", traces |-> <<Trace("", rows)>>]

Charts(names) == [i \in 1..Len(names) |-> Chart(names[i])]

\* The default visualization of both functions: a bar chart of a non-empty list of
\* rows with at least a text and a number column.
DefaultChart(data, name) ==
    IF KeyTruthy(data, "data") /\ data.data_kind = "list" /\ MixedColumns(data)
    THEN <<Chart(name)>> ELSE <<>>

create_enhanced_visualization(tool_name, data) ==
    LET isd == data.kind = "dict"
        fits == Fits("Marketingapp", tool_name, data)
    IN CASE tool_name = "generate_campaign_brief" /\ isd ->
              IF KeyTruthy(data, "intent_signals") /\ ~fits THEN <<>>
              ELSE (IF KeyTruthy(data, "intent_signals")
                      THEN <<Chart("Target Accounts")>> ELSE <<>>)
                   \o Charts(<<"Campaign KPIs", "Budget Allocation">>)
         [] tool_name = "detect_marketing_anomalies" /\ isd ->
              IF (HasKey(data, "data") \/ HasKey(data, "intent_spikes")) /\ ~fits THEN <<>>
              ELSE (IF HasKey(data, "data") THEN <<Chart("Anomaly Summary")>> ELSE <<>>)
                   \o (IF HasKey(data, "intent_spikes")
                         THEN <<Chart("Intent Spikes")>> ELSE <<>>)
                   \o <<Chart("Engagement Heatmap")>>
         [] tool_name = "get_account_360_view" /\ isd ->
              \* row.get(...) with defaults: any row will do
              IF KeyTruthy(data, "data")
              THEN Charts(<<"Key Metrics", "Account Comparison", "Customer Journey">>)
              ELSE <<>>
         [] tool_name = "get_channel_attribution" ->
              IF HasKey(data, "data") /\ fits
              THEN Charts(<<"Revenue Pie", "Conversion", "Channel Correlation">>) ELSE <<>>
         [] tool_name = "get_intent_signals" ->
              IF HasKey(data, "data") /\ fits
              THEN Charts(<<"Intent Bubble", "Account Radar", "3D View">>) ELSE <<>>
         [] tool_name = "get_conversion_funnel" ->
              \* over an empty list of rows the loop of traces does nothing
              IF HasKey(data, "data") /\ (fits \/ (data.data_kind = "list" /\ data.data = <<>>))
              THEN <<SegmentFunnel(data.data)>> \o Charts(<<"Journey Flow", "Waterfall">>)
              ELSE <<>>
         [] tool_name = "get_lead_metrics" ->
              IF HasKey(data, "data") /\ fits
              THEN Charts(<<"Lead Volume", "Trend", "Distribution", "Source Sunburst">>)
              ELSE <<>>
         [] tool_name = "get_paid_media_performance" ->
              IF HasKey(data, "data") /\ fits
              THEN Charts(<<"Spend vs Conversions", "Channel Mix", "Budget Treemap">>)
              ELSE <<>>
         [] tool_name = "get_pipeline_metrics" ->
              Charts(<<"Pipeline Waterfall", "KPI Gauges">>)
         [] OTHER -> DefaultChart(data, "Bar Chart")

\* The branches of create_visualizations that read one key after the other: the
\* key and the charts appended when its value is truthy.
TrialSections(tool_name) ==
    CASE tool_name = "get_b2b_marketing_summary" ->
           <<<<"data", <<"KPIs">>>>, <<"trend_data", <<"Trend">>>>,
             <<"channel_breakdown", <<"Channels">>>>,
             <<"segment_breakdown", <<"Segments">>>>>>
      [] tool_name = "get_lead_metrics" ->
           <<<<"data", <<"Volume", "MQL Rate", "Heatmap">>>>,
             <<"quality_dist", <<"Quality">>>>, <<"weekly", <<"Weekly">>>>>>
      [] tool_name = "get_intent_signals" ->
           <<<<"data", <<"Intent", "Radar">>>>, <<"stage_dist", <<"Stages">>>>,
             <<"topics", <<"Topics">>>>>>
      [] tool_name = "get_conversion_funnel" ->
           <<<<"data", <<"Funnel">>>>, <<"segment_funnels", <<"Segments">>>>,
             <<"velocity", <<"Velocity">>>>>>
      [] tool_name = "get_paid_media_performance" ->
           <<<<"data", <<"ROAS", "Efficiency", "CTR">>>>,
             <<"platform_comp", <<"Budget">>>>, <<"daily", <<"Daily">>>>>>
      [] tool_name = "get_channel_attribution" ->
           <<<<"data", <<"Revenue", "Models">>>>, <<"paths", <<"Paths">>>>>>
      [] tool_name = "detect_marketing_anomalies" ->
           <<<<"data", <<"Summary", "Impact">>>>, <<"summary", <<"Priority">>>>>>
      [] tool_name = "generate_campaign_brief" ->
           <<<<"channel_mix", <<"Budget", "Leads">>>>,
             <<"target_accounts", <<"Targets">>>>,
             <<"expected_results", <<"Results">>>>>>
      [] tool_name \in {"get_high_bounce_pages", "get_pages_to_sunset"} ->
           <<<<"data", <<"Overview">>>>, <<"by_device", <<"Devices">>>>>>
      [] tool_name = "get_accounts_to_reach_out" ->
           <<<<"data", <<"Matrix", "Potential">>>>,
             <<"priority_breakdown", <<"Priority">>>>>>
      [] tool_name = "get_pathfactory_engagement" ->
           <<<<"data", <<"Engagement">>>>, <<"by_type", <<"By Type">>>>>>
      [] OTHER -> <<>>

RECURSIVE SectionCharts(_, _, _)
\* Walks the sections in order; a section whose rows do not fit raises, and the
\* function returns the charts appended before it.
SectionCharts(sections, data, fits) ==
    IF sections = <<>> THEN [figures |-> <<>>, raised |-> FALSE]
    ELSE LET key == Head(sections)[1]
             names == Head(sections)[2]
             rest == SectionCharts(Tail(sections), data, fits)
         IN IF ~KeyTruthy(data, key) THEN rest
            ELSE IF ~fits THEN [figures |-> <<>>, raised |-> TRUE]
            ELSE [figures |->
                    [i \in 1..Len(names) |->
                       IF names[i] = "Funnel" THEN StageFunnel(data.data)
                       ELSE Chart(names[i])] \o rest.figures,
                  raised |-> rest.raised]

create_visualizations(tool_name, data) ==
    LET fits == Fits("trial", tool_name, data)
        walked == SectionCharts(TrialSections(tool_name), data, fits)
    IN CASE data.kind # "dict" -> <<>>   \* data.get raises AttributeError
         [] tool_name = "get_account_360_view" ->
              \* data.get("data", [{}])[0]
              IF HasKey(data, "data") /\ (data.data = <<>> \/ data.data_kind # "list")
              THEN <<>>
              ELSE <<Chart("Scorecard")>>
                   \o (IF KeyTruthy(data, "comparison") THEN <<Chart("Comparison")>> ELSE <<>>)
                   \o <<Chart("Journey")>>
         [] OTHER ->
              IF walked.raised \/ walked.figures # <<>> THEN walked.figures
              ELSE DefaultChart(data, "Overview")

\* The projection call of the handler: `if last_tool_data and last_tool_name`
\* (Marketingapp.py), `if tool_name and tool_data` (trial.py). V1 has none.
Projection(a, tool_name, data) ==
    IF a = "V1" \/ tool_name = "" \/ ~PayloadTruthy(data) THEN <<>>
    ELSE IF a = "Marketingapp" THEN create_enhanced_visualization(tool_name, data)
    ELSE create_visualizations(tool_name, data)

(***************************************************************************)
(* Initial state: a fresh session of one of the three programs.            *)
(***************************************************************************)
Init ==
    /\ app \in Apps
    /\ api_key = FALSE
    /\ messages = <<>>
    /\ api_messages = <<>>
    /\ query_count = 0
    /\ last_input = <<>>
    /\ pc = "idle"
    /\ user_input = <<>>
    /\ msgs = <<>>
    /\ response = NoResponse
    /\ iteration = 0
    /\ tools_called = <<>>
    /\ last_tool_name = ""
    /\ last_tool_data = NoPayload
    /\ final_answer = <<>>
    /\ figures = <<>>
    /\ outcome = "none"
    /\ raised = "none"
    /\ last_exec = NoExec
    /\ calls = 0
    /\ pre_messages = <<>>
    /\ pre_api = <<>>
    /\ cycles = 0
    /\ varied = 0
    /\ conversation_context = <<>>
    /\ last_button = "none"

\* A script run starts with fresh locals; key is what the sidebar's API key field
\* holds when the run starts.
FreshRun(q, key) ==
    /\ user_input' = q
    /\ api_key' = key
    /\ response' = NoResponse
    /\ iteration' = 0
    /\ tools_called' = <<>>
    /\ last_tool_name' = ""
    /\ last_tool_data' = NoPayload
    /\ final_answer' = <<>>
    /\ figures' = <<>>
    /\ raised' = "none"
    /\ last_exec' = NoExec
    /\ pre_messages' = messages
    /\ pre_api' = api_messages
    /\ cycles' = cycles + 1

\* The questions are interchangeable: a session opens with the first of them.
Opens(q) == cycles = 0 => q = <<"q1">>

\* Whether the handler of the program takes the question at all.
Submits(a, q) == a = "Marketingapp" => q # last_input

\* The session log once the handler has taken the question, before the try block:
\* Marketingapp.py stops before the append when no key is set, V1 tests the key
\* before the append, trial.py appends first.
LogOnSubmit(a, log, q, key) ==
    IF a = "trial" \/ key THEN Append(log, ShownUser(q)) ELSE log

\* The list handed to the first messages.create call.
FirstRequest(a, log, q) ==
    IF a = "trial" THEN Append(Window(log), UserText(q)) ELSE <<UserText(q)>>

\* A plausible slip: a second script run handling a question while the first one is
\* still waiting for messages.create.
Submit_reentrant(q) ==
    /\ Opens(q)
    /\ Submits(app, q)
    /\ FreshRun(q, TRUE)
    /\ last_input' = IF app = "Marketingapp" THEN q ELSE last_input
    /\ query_count' = IF app = "V1" THEN query_count ELSE query_count + 1
    /\ messages' = LogOnSubmit(app, messages, q, TRUE)
    /\ msgs' = FirstRequest(app, api_messages, q)
    /\ calls' = 1
    /\ outcome' = "none"
    /\ pc' = "call"
    /\ UNCHANGED <<app, api_messages, varied, conversation_context, last_button>>

\* The handler takes a question with the API key set and issues the first
\* messages.create call.
Submit(q) ==
    /\ pc = "idle"
    /\ Opens(q)
    /\ Submits(app, q)
    /\ FreshRun(q, TRUE)
    /\ last_input' = IF app = "Marketingapp" THEN q ELSE last_input
    /\ query_count' = IF app = "V1" THEN query_count ELSE query_count + 1
    /\ messages' = LogOnSubmit(app, messages, q, TRUE)
    /\ msgs' = FirstRequest(app, api_messages, q)
    /\ calls' = 1
    /\ outcome' = "none"
    /\ pc' = "call"
    /\ UNCHANGED <<app, api_messages, varied, conversation_context, last_button>>

\* A question is submitted and the first messages.create call is issued.
Ask(q) == cycles < MaxCycles /\ Submit(q)

\* A question of a longer session: the same handler, up to MaxQuestions questions.
AskInSession(q) == cycles < MaxQuestions /\ Submit(q)

\* The handler takes a question while no API key is set: a warning or an error is
\* shown and no call is issued.
SubmitWithoutKey(q) ==
    /\ pc = "idle"
    /\ Opens(q)
    /\ Submits(app, q)
    /\ FreshRun(q, FALSE)
    /\ last_input' = IF app = "Marketingapp" THEN q ELSE last_input
    /\ query_count' = IF app = "V1" THEN query_count ELSE query_count + 1
    /\ messages' = LogOnSubmit(app, messages, q, FALSE)
    /\ msgs' = <<>>
    /\ calls' = 0
    /\ outcome' = "rejected"
    /\ pc' = "idle"
    /\ UNCHANGED <<app, api_messages, varied, conversation_context, last_button>>

\* A question is submitted while no API key is set.
AskWithoutKey(q) == cycles < MaxCycles /\ SubmitWithoutKey(q)

\* The same in a longer session.
AskInSessionWithoutKey(q) == cycles < MaxQuestions /\ SubmitWithoutKey(q)

\* Marketingapp.py: Ask is clicked on the text that is already in last_input. The
\* outer test of the handler passes and the inner one fails: the script run ends
\* without doing anything.
AskIgnored(key) ==
    /\ pc = "idle"
    /\ app = "Marketingapp"
    /\ last_input # <<>>
    /\ user_input' = last_input
    /\ api_key' = key
    /\ outcome' = "ignored"
    /\ UNCHANGED <<app, session, pc, msgs, response, iteration, tools_called,
                   last_tool_name, last_tool_data, final_answer, raised, last_exec, calls,
                   pre_messages, pre_api, cycles, varied, conversation_context,
                   last_button, figures>>

\* What a reset button leaves unchanged: everything but the session entries.
ResetFrame ==
    UNCHANGED <<app, api_key, last_input, pc, user_input, msgs, response, iteration,
                tools_called, last_tool_name, last_tool_data, final_answer, outcome,
                raised, last_exec, calls, pre_messages, pre_api, cycles, varied,
                conversation_context, figures>>

\* "Clear Chat" of Marketingapp.py, "Clear" of trial.py and of V1.streamlit.py.
ClearChat ==
    /\ pc = "idle"
    /\ messages' = <<>>
    /\ query_count' = IF app = "Marketingapp" THEN 0 ELSE query_count
    /\ last_button' = "clear"
    /\ UNCHANGED api_messages
    /\ ResetFrame

\* "New" of trial.py.
New ==
    /\ pc = "idle"
    /\ app = "trial"
    /\ messages' = <<>>
    /\ api_messages' = <<>>
    /\ query_count' = 0
    /\ last_button' = "new"
    /\ ResetFrame

\* "Start Guided Demo" in the sidebar of Marketingapp.py.
StartGuidedDemo ==
    /\ pc = "idle"
    /\ app = "Marketingapp"
    /\ messages' = <<>>
    /\ query_count' = 0
    /\ last_button' = "demo"
    /\ UNCHANGED api_messages
    /\ ResetFrame

\* The environment's budget of events outside the plain ones.
PlainErrors == {"APIConnectionError", "RateLimitError"}
Allowed(rs) == rs \in PlainShapes \/ varied < MaxVaried
Spend(rs) == IF rs \in PlainShapes THEN varied ELSE varied + 1
AllowedError(e) == e \in PlainErrors \/ varied < MaxVaried
SpendError(e) == IF e \in PlainErrors THEN varied ELSE varied + 1

\* The API numbers the blocks of a response past every id of the conversation it
\* was sent.
BlocksOf(list) == UNION {{list[i].blocks[j] : j \in 1..Len(list[i].blocks)} : i \in 1..Len(list)}
MaxId(list) ==
    LET ids == {0} \cup {b.id : b \in BlocksOf(list)}
    IN CHOOSE m \in ids : \A x \in ids : x <= m

\* How the except clauses report an exception of messages.create or of the loop body.
Shown(a, e) == IF e = "AuthenticationError" /\ a # "V1" THEN "auth_error" ELSE "error"

\* A plausible slip: catching the exception inside the loop and calling again.
ModelRaises_retry(e) ==
    /\ pc = "call"
    /\ e \in PlainErrors
    /\ raised' = e
    /\ pc' = "call"
    /\ UNCHANGED <<app, api_key, session, user_input, msgs, response, iteration,
                   tools_called, last_tool_name, last_tool_data, final_answer, last_exec,
                   calls, pre_messages, pre_api, cycles, outcome, varied,
                   conversation_context, last_button, figures>>

\* messages.create raises: the except clauses show an error and the run ends.
ModelRaises(e) ==
    /\ pc = "call"
    /\ AllowedError(e)
    /\ raised' = e
    /\ outcome' = Shown(app, e)
    /\ varied' = SpendError(e)
    /\ pc' = "idle"
    /\ last_button' = "none"
    /\ UNCHANGED <<app, api_key, session, user_input, msgs, response, iteration,
                   tools_called, last_tool_name, last_tool_data, final_answer, last_exec,
                   calls, pre_messages, pre_api, cycles, conversation_context, figures>>

\* messages.create returns a response that keeps the loop going; every request of
\* the pass is executed, the turns are appended and the next call is issued.
ToolRound(rs) ==
    /\ pc = "call"
    /\ Allowed(rs)
    /\ rs[1] = "tool_use"
    /\ \E r \in {ResponseOf(app, rs, MaxId(msgs))} :
       \E uses \in {ExecutedUses(app, r.content)} :
       LET n == Len(uses)
       IN /\ LoopContinues(app, r, iteration)
          /\ uses # <<>>
          /\ FirstRaise(app, uses) = 0
          /\ response' = r
          /\ iteration' = iteration + 1
          /\ tools_called' = RecordTools(app, tools_called, uses)
          /\ last_tool_name' = IF app = "V1" THEN last_tool_name ELSE uses[n].name
          /\ last_tool_data' = Exec(app, uses[n]).payload
          /\ last_exec' = ExecRecord(app, uses[n])
          /\ msgs' = msgs \o RoundTurns(app, r.content, ResultsOf(app, uses))
    /\ calls' = calls + 1
    /\ varied' = Spend(rs)
    /\ pc' = "call"
    /\ UNCHANGED <<app, api_key, session, user_input, final_answer, outcome, raised,
                   pre_messages, pre_api, cycles, conversation_context, last_button,
                   figures>>

\* As ToolRound, but get_mock_data raises for the k-th request of the pass: the
\* exception leaves the loop and the try block.
ToolRoundFails(rs) ==
    /\ pc = "call"
    /\ Allowed(rs)
    /\ rs[1] = "tool_use"
    /\ \E r \in {ResponseOf(app, rs, MaxId(msgs))} :
       \E uses \in {ExecutedUses(app, r.content)} :
       \E k \in {FirstRaise(app, uses)} :
       LET done == SubSeq(uses, 1, k - 1)
       IN /\ LoopContinues(app, r, iteration)
          /\ k > 0
          /\ response' = r
          /\ iteration' = iteration + 1
          /\ tools_called' = RecordTools(app, tools_called, SubSeq(uses, 1, k))
          /\ last_tool_name' = IF app = "V1" \/ k = 1 THEN last_tool_name ELSE uses[k - 1].name
          /\ last_tool_data' = IF k = 1 THEN last_tool_data ELSE Exec(app, uses[k - 1]).payload
          /\ last_exec' = ExecRecord(app, uses[k])
          /\ msgs' = IF app = "trial"
                       THEN msgs \o PairedTurns(r.content, ResultsOf(app, done))
                       ELSE msgs
    /\ varied' = Spend(rs)
    /\ raised' = "ToolError"
    /\ outcome' = Shown(app, "ToolError")
    /\ pc' = "idle"
    /\ last_button' = "none"
    /\ UNCHANGED <<app, api_key, session, user_input, final_answer, calls, pre_messages,
                   pre_api, cycles, conversation_context, figures>>

\* messages.create returns a response on which the loop ends: the answer is
\* extracted, shown and committed to the session.
Finish(rs) ==
    /\ pc = "call"
    /\ Allowed(rs)
    /\ \E r \in {ResponseOf(app, rs, MaxId(msgs))} :
          /\ ~LoopContinues(app, r, iteration)
          /\ response' = r
          /\ final_answer' = FinalAnswer(app, r.content)
          /\ figures' = Projection(app, last_tool_name, last_tool_data)
          /\ messages' = Append(messages, ShownAssistant(final_answer'))
          /\ api_messages' = IF app = "trial"
                               THEN Append(msgs, AssistantTurn(r.content))
                               ELSE api_messages
    /\ conversation_context' = IF app = "trial"
                                  THEN <<user_input, last_tool_name>>
                                  ELSE conversation_context
    /\ varied' = Spend(rs)
    /\ outcome' = "answer"
    /\ pc' = "idle"
    /\ last_button' = "none"
    /\ UNCHANGED <<app, api_key, query_count, last_input, user_input, msgs, iteration,
                   tools_called, last_tool_name, last_tool_data, last_exec, raised, calls,
                   pre_messages, pre_api, cycles>>

Next ==
    \/ \E q \in Questions : Ask(q)
    \/ \E q \in Questions : AskWithoutKey(q)
    \/ \E e \in ModelErrors : ModelRaises(e)
    \/ \E rs \in ResponseShapes : ToolRound(rs)
    \/ \E rs \in ResponseShapes : ToolRoundFails(rs)
    \/ \E rs \in ResponseShapes : Finish(rs)

Spec == Init /\ [][Next]_vars

\* An outstanding messages.create call comes back: with a response or an exception.
ModelResponds ==
    \/ \E e \in ModelErrors : ModelRaises(e)
    \/ \E rs \in ResponseShapes : ToolRound(rs)
    \/ \E rs \in ResponseShapes : ToolRoundFails(rs)
    \/ \E rs \in ResponseShapes : Finish(rs)

\* The program under the assumption that no messages.create call hangs.
LiveSpec == Spec /\ WF_vars(ModelResponds)

\* A session of several questions in which the model answers in the plain way: one
\* tool request per response, one text block at the end, or a transient failure.
\* Between two questions the user may press the reset buttons.
SessionNext ==
    \/ \E q \in Questions : AskInSession(q)
    \/ \E q \in Questions : AskInSessionWithoutKey(q)
    \/ \E key \in BOOLEAN : AskIgnored(key)
    \/ ClearChat
    \/ New
    \/ StartGuidedDemo
    \/ \E e \in PlainErrors : ModelRaises(e)
    \/ \E rs \in PlainShapes : ToolRound(rs)
    \/ \E rs \in PlainShapes : Finish(rs)

SessionSpec == Init /\ [][SessionNext]_vars

(***************************************************************************)
(* The executor and the projection on their own: get_mock_data and the two *)
(* chart functions applied to tool names, arguments and payloads drawn     *)
(* from bounded sets.                                                      *)
(***************************************************************************)
ToolNames(a) == RegistryNames(a) \cup {Unregistered}

\* Payloads handed to the projection: None, {}, the default payloads of the three
\* programs, and every fixture of the program itself.
PayloadInputs(a) ==
    {NoPayload, EmptyPayload, MarketingappDefault, TrialDefault, V1Default}
      \cup {get_mock_data(a, n, EmptyDict).payload : n \in MockNames(a)}

\* What the direct calls leave unchanged.
CallFrame ==
    UNCHANGED <<app, api_key, session, user_input, msgs, response, iteration,
                tools_called, final_answer, outcome, raised, calls, pre_messages,
                pre_api, cycles, varied, conversation_context, last_button>>

\* get_mock_data(tool_name, tool_input) is called.
Execute(tool_name, tool_input) ==
    /\ pc = "idle"
    /\ tool_name \in ToolNames(app)
    /\ \E r \in {get_mock_data(app, tool_name, tool_input)} :
          /\ last_exec' = [name |-> tool_name, input |-> tool_input, id |-> 0,
                           raised |-> r.raised, payload |-> r.payload]
          /\ last_tool_data' = r.payload
    /\ last_tool_name' = tool_name
    /\ figures' = <<>>
    /\ pc' = "executed"
    /\ CallFrame

\* create_enhanced_visualization(tool_name, data) / create_visualizations(tool_name,
\* data) is called.
Project(tool_name, data) ==
    /\ pc = "idle"
    /\ app # "V1"
    /\ tool_name \in ToolNames(app)
    /\ data \in PayloadInputs(app)
    /\ last_tool_name' = tool_name
    /\ last_tool_data' = data
    /\ last_exec' = NoExec
    /\ figures' = IF app = "Marketingapp"
                    THEN create_enhanced_visualization(tool_name, data)
                    ELSE create_visualizations(tool_name, data)
    /\ pc' = "projected"
    /\ CallFrame

AllToolNames == UNION {ToolNames(a) : a \in Apps}
AllPayloads == UNION {PayloadInputs(a) : a \in Apps}

FixtureNext ==
    \/ \E n \in AllToolNames : \E inp \in ToolInputs : Execute(n, inp)
    \/ \E n \in AllToolNames : \E p \in AllPayloads : Project(n, p)

FixtureSpec == Init /\ [][FixtureNext]_vars

ResultsFor(list, id) ==
    {p \in UNION {{<<i, j>> : j \in 1..Len(list[i].blocks)} : i \in 1..Len(list)} :
        /\ list[p[1]].blocks[p[2]].type = "tool_result"
        /\ list[p[1]].blocks[p[2]].id = id}

\* C2: when a follow-up messages.create call is issued, the submitted list holds
\* exactly one tool_result for every tool_use block of the response before it,
\* carrying that block's id.
C2_EveryRequestAnswered ==
    (pc = "call" /\ iteration > 0) =>
        \A k \in 1..Len(response.content) :
            response.content[k].type = "tool_use" =>
                Cardinality(ResultsFor(msgs, response.content[k].id)) = 1

\* Whether the turn after position i of a list is the result batch of the
\* assistant turn at position i: as long, and carrying the same ids in order.
Resolved(list, i) ==
    LET uses == SelectSeq(list[i].blocks, LAMBDA b : b.type = "tool_use")
    IN uses # <<>> =>
         /\ i < Len(list)
         /\ list[i + 1].role = "user"
         /\ Len(list[i + 1].blocks) = Len(uses)
         /\ \A k \in 1..Len(uses) :
              /\ list[i + 1].blocks[k].type = "tool_result"
              /\ list[i + 1].blocks[k].id = uses[k].id

\* C3: in the api_messages trial.py has committed, every assistant turn holding
\* tool_use blocks is followed by a result batch of the same length with the same
\* ids; no committed turn holds an unresolved request.
C3_CommittedResolved ==
    app = "trial" =>
        \A i \in 1..Len(api_messages) :
            api_messages[i].role = "assistant" => Resolved(api_messages, i)

\* C4: when messages.create raises during a cycle, st.session_state.messages (and
\* api_messages in trial.py) is what it was before the question was submitted.
C4_FailureCommitsNothing ==
    (pc = "idle" /\ raised \in ModelErrors) =>
        /\ messages = pre_messages
        /\ api_messages = pre_api

\* C5: after every cycle, every user turn of st.session_state.messages is
\* immediately followed by an assistant turn.
C5_NoUnansweredUserTurn ==
    pc = "idle" =>
        \A i \in 1..Len(messages) :
            messages[i].role = "user" =>
                /\ i < Len(messages)
                /\ messages[i + 1].role = "assistant"

\* The most recent get_mock_data call of the run was for a name outside TOOLS.
UnregisteredExecuted ==
    /\ last_exec.name # ""
    /\ last_exec.name \notin RegistryNames(app)

C7_ToolRaiseDoesNotAbort ==
    last_exec.raised =>
        \/ pc = "call" /\ Cardinality(ResultsFor(msgs, last_exec.id)) = 1
        \/ pc = "idle" /\ outcome = "answer"

\* The most recent get_mock_data call of the run was for a name the fixture table
\* does not hold, with a JSON object as tool input.
UnsatisfiableExecuted ==
    /\ last_exec.name # ""
    /\ last_exec.name \notin MockNames(app)
    /\ last_exec.input.kind = "dict"

C9_AnswerNeverEmpty ==
    (pc = "idle" /\ outcome = "answer") =>
        /\ final_answer # <<>>
        /\ messages[Len(messages)].content # <<>>

\* The cycle of Marketingapp.py ended because the response received after the
\* eighth pass of the loop still had stop_reason tool_use.
CapExit ==
    /\ app = "Marketingapp"
    /\ pc = "idle"
    /\ outcome = "answer"
    /\ iteration = MarketingappCap
    /\ response.stop_reason = "tool_use"

RECURSIVE RequestedNames(_)
\* The names of the tool_use blocks in the assistant turns of a list, in order.
RequestedNames(list) ==
    IF list = <<>> THEN <<>>
    ELSE LET uses == SelectSeq(Head(list).blocks, LAMBDA b : b.type = "tool_use")
         IN (IF Head(list).role = "assistant"
             THEN [k \in 1..Len(uses) |-> uses[k].name] ELSE <<>>)
            \o RequestedNames(Tail(list))

\* What the cap exit leaves apart from the answer: nine calls, no execution of the
\* last response's requests, and the executed names in order.
CapExitRecord ==
    /\ calls = MarketingappCap + 1
    /\ \A k \in 1..Len(response.content) :
           response.content[k].type = "tool_use" =>
               ResultsFor(msgs, response.content[k].id) = {}
    /\ tools_called = RequestedNames(msgs)
    /\ Len(tools_called) >= MarketingappCap

\* C10, as stated: at the cap exit no further tool is executed, no further call is
\* made, tools_called holds the executed names in order and final_answer is the
\* fallback text.
C10_CapExitFallback ==
    CapExit =>
        /\ CapExitRecord
        /\ final_answer = <<"I couldn't generate a response. Please try rephrasing.">>

\* The text of the text blocks of a response, concatenated.
TextOf(content) ==
    LET texts == SelectSeq(content, LAMBDA b : b.type = "text")
        F[k \in 0..Len(texts)] == IF k = 0 THEN <<>> ELSE F[k - 1] \o texts[k].text
    IN F[Len(texts)]

\* C10: at the cap exit no further tool is executed, no further call is made,
\* tools_called holds the executed names in order, and final_answer is the text of
\* the last response, or the fallback text when that response has no text.
C10_CapExitAnswer ==
    CapExit =>
        /\ CapExitRecord
        /\ final_answer =
             IF TextOf(response.content) = <<>>
             THEN <<"I couldn't generate a response. Please try rephrasing.">>
             ELSE TextOf(response.content)
        /\ messages[Len(messages)] = [role |-> "assistant", content |-> final_answer]

\* A cap exit on a response that holds text beside its tool request.
C10_Witness ==
    /\ CapExit
    /\ TextOf(response.content) = <<"a">>
    /\ final_answer = <<"a">>
    /\ Len(tools_called) = MarketingappCap

\* The turns the current run has appended to the list it submits, after the
\* question: in trial.py the list opens with the last turns of api_messages.
CycleTurns ==
    LET kept == IF app = "trial"
                THEN (IF Len(pre_api) <= 10 THEN Len(pre_api) ELSE 10)
                ELSE 0
    IN SubSeq(msgs, kept + 2, Len(msgs))

\* The tool_use blocks of a turn.
RequestsOf(turn) == SelectSeq(turn.blocks, LAMBDA b : b.type = "tool_use")

\* A cycle of Marketingapp.py or trial.py in which each of n >= 1 successive
\* responses asked for exactly one tool and the next response was the answer.
OneToolPerRound ==
    /\ app # "V1"
    /\ pc = "idle"
    /\ outcome = "answer"
    /\ response.stop_reason # "tool_use"
    /\ iteration >= 1
    /\ Len(CycleTurns) = 2 * iteration
    /\ \A k \in 1..iteration :
         /\ CycleTurns[2 * k - 1].role = "assistant"
         /\ Len(RequestsOf(CycleTurns[2 * k - 1])) = 1

\* What such a cycle records: the n names in request order, and as last payload
\* the one returned for the n-th request, which is the content of the last result.
OneToolRecord ==
    /\ tools_called = [k \in 1..iteration |-> RequestsOf(CycleTurns[2 * k - 1])[1].name]
    /\ last_tool_name = tools_called[iteration]
    /\ last_tool_data = CycleTurns[2 * iteration].blocks[1].content
    /\ last_tool_data = last_exec.payload
    /\ last_exec.id = RequestsOf(CycleTurns[2 * iteration - 1])[1].id

\* C11, as stated: n one-tool responses followed by an answer make exactly n
\* round-trips (messages.create calls), tools_called is the n names in request
\* order and the last payload is that of the n-th call.
C11_NRoundTrips ==
    OneToolPerRound => (calls = iteration /\ OneToolRecord)

\* C11: n one-tool responses followed by an answer make exactly n passes of the
\* loop and n + 1 messages.create calls, tools_called is the n names in request
\* order and the last payload is that of the n-th call.
C11_NPassesNPlusOneCalls ==
    OneToolPerRound => (calls = iteration + 1 /\ OneToolRecord)

\* Two rounds: the intent tool, then the account tool, then the answer.
C11_Witness ==
    /\ OneToolPerRound
    /\ iteration = 2
    /\ tools_called = <<"get_intent_signals", "get_account_360_view">>
    /\ last_exec.name = "get_account_360_view"
    /\ calls = 3

\* The most recent get_mock_data call of the run was get_account_360_view with a
\* JSON object as tool input, and it returned.
AccountViewExecuted ==
    /\ last_exec.name = "get_account_360_view"
    /\ last_exec.input.kind = "dict"
    /\ ~last_exec.raised

\* C12, as stated: get_account_360_view called with account_name = X returns a
\* payload whose first data row is identified by X.
C12_AccountNameEchoed ==
    (AccountViewExecuted /\ last_exec.input.key = "account_name") =>
        last_exec.payload.data = <<last_exec.input.val>>

\* C12: get_account_360_view returns a payload whose first data row is identified
\* by the value of the argument the program reads, account_name in trial.py and
\* company_name in Marketingapp.py, and by "Goldman Sachs" when that argument is
\* absent, whatever other argument is given.
C12_ReadArgumentEchoed ==
    AccountViewExecuted =>
        last_exec.payload.data =
            <<IF last_exec.input.key =
                   (IF app = "Marketingapp" THEN "company_name" ELSE "account_name")
              THEN last_exec.input.val
              ELSE "Goldman Sachs">>

\* Marketingapp.py was asked for the account by company_name and echoed it.
C12_Witness ==
    /\ AccountViewExecuted
    /\ app = "Marketingapp"
    /\ last_exec.input.key = "company_name"
    /\ last_exec.payload.data = <<"Initech">>
    /\ pc = "call"

\* C13: provided every messages.create call comes back, a cycle with a call
\* outstanding always ends: on an answer (the cap exit included) or on an error
\* report.
C13_CycleTerminates ==
    (pc = "call") ~> (pc = "idle" /\ outcome \in {"answer", "error", "auth_error"})

\* A cycle that used every pass the cap allows and then ended on a text answer.
C13_Witness ==
    /\ pc = "idle"
    /\ iteration = Cap(app)
    /\ response.stop_reason = "end_turn"
    /\ outcome = "answer"

\* The stop-reason half of C14: a call is outstanding only at the start of a cycle
\* or after a tool_use response, and on any other response nothing of it is
\* executed and no call follows.
OtherStopEndsCycle ==
    /\ pc = "call" => response.stop_reason \in {"none", "tool_use"}
    /\ (pc = "idle" /\ response.stop_reason \notin {"none", "tool_use"}) =>
         /\ outcome = "answer"
         /\ calls = iteration + 1
         /\ \A k \in 1..Len(response.content) :
              response.content[k].type = "tool_use" =>
                  /\ ResultsFor(msgs, response.content[k].id) = {}
                  /\ last_exec.id # response.content[k].id

\* C14: a response whose stop_reason is not tool_use ends the cycle, with no tool
\* executed and no call made after it, and its text, or the fallback when it has
\* none, is the final answer.
C14_OtherStopIsTerminal ==
    /\ OtherStopEndsCycle
    /\ (pc = "idle" /\ response.stop_reason \notin {"none", "tool_use"}) =>
         final_answer = IF TextOf(response.content) = <<>>
                        THEN Fallback(app)
                        ELSE TextOf(response.content)

\* C15: an authentication failure of messages.create ends the cycle at once, the
\* failed call being the last one, and is shown as an authentication error, an
\* outcome no other failure has.
C15_AuthFailsFastAndDistinct ==
    /\ raised = "AuthenticationError" =>
         /\ pc = "idle"
         /\ calls = iteration + 1
         /\ outcome = "auth_error"
    /\ raised \notin {"none", "AuthenticationError"} => outcome # "auth_error"

\* No request of the submitted list has more than one result.
NoRequestAnsweredTwice ==
    \A i \in 1..Len(msgs) : \A j \in 1..Len(msgs[i].blocks) :
        msgs[i].blocks[j].type = "tool_use" =>
            Cardinality(ResultsFor(msgs, msgs[i].blocks[j].id)) <= 1

\* A step that starts the run of a newly submitted question.
NewSubmission ==
    /\ cycles' = cycles + 1
    /\ raised' = "none"
    /\ iteration' = 0
    /\ tools_called' = <<>>
    /\ last_exec'.name = ""

\* C16: after messages.create has failed the handler does not retry: the failed
\* call stays the last one of the question, nothing more is executed, the next
\* step is a new submission by the user, and no request is ever answered twice.
C16_NoRetryAfterFailure ==
    /\ [](NoRequestAnsweredTwice)
    /\ [](raised \in ModelErrors => (pc = "idle" /\ calls = iteration + 1))
    /\ [][(raised \in ModelErrors) => NewSubmission]_vars

\* A rate-limit error arrived after a tool round had been completed.
C16_Witness ==
    /\ raised = "RateLimitError"
    /\ pc = "idle"
    /\ iteration >= 1
    /\ Cardinality(ResultsFor(msgs, last_exec.id)) = 1

\* C17: a rate-limit failure of messages.create has an outcome of its own, not the
\* one shown for other failures.
C17_RateLimitDistinct ==
    raised = "RateLimitError" => outcome \notin {"error", "auth_error"}

\* C18: in trial.py no list handed to messages.create is longer than the window,
\* on the first call of a question and on every call after a tool round.
C18_SubmittedWithinWindow ==
    (app = "trial" /\ calls >= 1) => Len(msgs) <= TrialWindow

\* C20: a question asked while no API key is set is reported, appends no turn to
\* messages or api_messages, and issues no messages.create call.
C20_NoKeyLeavesStateUnchanged ==
    outcome = "rejected" =>
        /\ messages = pre_messages
        /\ api_messages = pre_api
        /\ calls = 0
        /\ pc = "idle"

\* Some earlier question of the session was answered.
AnsweredBefore == \E i \in 1..Len(pre_messages) : pre_messages[i].role = "assistant"

\* The answer of the last completed cycle, as the session log shows it.
LastAnswer ==
    LET shown == SelectSeq(pre_messages, LAMBDA m : m.role = "assistant")
    IN shown[Len(shown)].content

\* C19: the list handed to the first messages.create call of a question carries the
\* preceding completed cycle: the turn before the new question is the assistant turn
\* that gave the last answer.
C19_HistoryCarried ==
    (pc = "call" /\ calls = 1 /\ AnsweredBefore) =>
        /\ Len(msgs) >= 2
        /\ msgs[Len(msgs) - 1].role = "assistant"
        /\ FinalAnswer(app, msgs[Len(msgs) - 1].blocks) = LastAnswer

\* A step taken while a messages.create call is outstanding belongs to the cycle of
\* that call.
StepOfTheCycle ==
    /\ cycles' = cycles
    /\ user_input' = user_input
    /\ pre_messages' = pre_messages
    /\ pre_api' = pre_api
    /\ query_count' = query_count
    /\ last_button' \in {last_button, "none"}
    /\ messages' \in {messages, Append(messages, ShownAssistant(final_answer'))}
    /\ api_messages' \in {api_messages, Append(msgs, AssistantTurn(response'.content))}

Degenerate(p) == p.kind # "dict" \/ p.keys = {} \/ (HasKey(p, "data") /\ p.data = <<>>)

\* The shape the function expects of the payload of a tool: the rows of the tool's
\* fixture where it has a branch for the tool, any non-empty list of rows with a
\* text and a number column where it has none. The branch of get_pipeline_metrics
\* reads nothing of the payload.
ExpectedShape(a, tool_name, p) ==
    LET branches ==
          IF a = "Marketingapp"
          THEN {"generate_campaign_brief", "detect_marketing_anomalies",
                "get_account_360_view", "get_channel_attribution", "get_intent_signals",
                "get_conversion_funnel", "get_lead_metrics", "get_paid_media_performance"}
          ELSE {n \in RegistryNames("trial") : TrialSections(n) # <<>>}
                 \cup {"get_account_360_view"}
    IN CASE tool_name \in branches -> Fits(a, tool_name, p)
         [] tool_name = "get_pipeline_metrics" /\ a = "Marketingapp" -> TRUE
         [] OTHER -> KeyTruthy(p, "data") /\ p.data_kind = "list" /\ MixedColumns(p)

\* C22: a chart function called with a payload that is absent, empty, or not of the
\* shape its branch for the tool expects returns no chart. (That it returns at all
\* is built into the functions: the whole body is inside try/except Exception.)
C22_NoChartsWithoutData ==
    (pc = "projected"
       /\ (Degenerate(last_tool_data)
             \/ ~ExpectedShape(app, last_tool_name, last_tool_data)))
      => figures = <<>>

FunnelProjected ==
    /\ pc = "projected"
    /\ last_tool_name = "get_conversion_funnel"
    /\ get_mock_data(app, "get_conversion_funnel", EmptyDict) = Returned(last_tool_data)

\* The funnel charts among the projected figures.
FunnelCharts == SelectSeq(figures, LAMBDA f : f.name = "Funnel")

\* C24 as stated: five stage rows Leads=1245, MQLs=425, SQLs=156, Opportunities=89,
\* Closed Won=28, and one funnel chart over the stages in row order.
C24_FiveStageFunnel ==
    FunnelProjected =>
        /\ last_tool_data.data = <<"Leads", "MQLs", "SQLs", "Opportunities", "Closed Won">>
        /\ FunnelCounts(app) = <<1245, 425, 156, 89, 28>>
        /\ Len(FunnelCharts) = 1
        /\ FunnelCharts[1].traces = <<Trace("", last_tool_data.data)>>

\* C24: get_conversion_funnel with no arguments returns in trial.py the seven stage
\* rows Visitors=45000, Known Leads=8500, Engaged=3200, MQLs=425, SQLs=156,
\* Opportunities=89, Closed Won=28 and the projection has one funnel chart over the
\* stages in row order; in Marketingapp.py it returns the three segment rows DCIO,
\* Enterprise, Mid-Market and the one funnel chart has one trace per row, in row
\* order, each over Leads, MQLs, Opportunities, Closed Won.
C24_FunnelFollowsRows ==
    FunnelProjected =>
        /\ Len(FunnelCharts) = 1
        /\ Len(FunnelCounts(app)) = Len(last_tool_data.data)
        /\ app = "trial" =>
             /\ last_tool_data.data = <<"Visitors", "Known Leads", "Engaged", "MQLs",
                                        "SQLs", "Opportunities", "Closed Won">>
             /\ FunnelCounts(app) = <<45000, 8500, 3200, 425, 156, 89, 28>>
             /\ FunnelCharts[1].traces = <<Trace("", last_tool_data.data)>>
        /\ app = "Marketingapp" =>
             /\ last_tool_data.data = <<"DCIO", "Enterprise", "Mid-Market">>
             /\ [i \in 1..Len(FunnelCharts[1].traces) |-> FunnelCharts[1].traces[i].name]
                  = last_tool_data.data
             /\ \A i \in 1..Len(FunnelCharts[1].traces) :
                  FunnelCharts[1].traces[i].y
                    = <<"Leads", "MQLs", "Opportunities", "Closed Won">>

\* The funnel fixture of trial.py was projected into its three charts.
C24_Witness ==
    /\ FunnelProjected
    /\ app = "trial"
    /\ Len(figures) = 3
    /\ figures[1].name = "Funnel"

\* C25: when the loop of Marketingapp.py or trial.py issues a follow-up call, the
\* response that asked for tools stands in the submitted list exactly once, as the
\* last turn but one, the last turn is the one batch with a result for each of its
\* requests in request order, and every pass so far has added just two turns.
C25_OneTurnPairPerResponse ==
    (app # "V1" /\ pc = "call" /\ iteration > 0) =>
        LET n == Len(msgs)
        IN /\ msgs[n - 1] = AssistantTurn(response.content)
           /\ Cardinality({i \in 1..n : msgs[i] = AssistantTurn(response.content)}) = 1
           /\ Resolved(msgs, n - 1)
           /\ Len(CycleTurns) = 2 * iteration

\* The tool_result at block b of turn i of a list has its request before it: an
\* earlier assistant turn holds the tool_use block with its id.
Originated(list, i, b) ==
    \E j \in 1..(i - 1) :
        /\ list[j].role = "assistant"
        /\ \E k \in 1..Len(list[j].blocks) :
              /\ list[j].blocks[k].type = "tool_use"
              /\ list[j].blocks[k].id = list[i].blocks[b].id

\* C26: in every list trial.py submits to the model, each tool_result is preceded
\* by the assistant turn that holds its tool_use id; the window never cuts a
\* result off from its request.
C26_NoOrphanResult ==
    (app = "trial" /\ pc = "call") =>
        \A i \in 1..Len(msgs) : \A b \in 1..Len(msgs[i].blocks) :
            msgs[i].blocks[b].type = "tool_result" => Originated(msgs, i, b)

\* C27: every list submitted to the model begins and ends with a user-role message
\* and alternates between the user and the assistant role.
C27_RolesAlternate ==
    pc = "call" =>
        /\ msgs # <<>>
        /\ msgs[1].role = "user"
        /\ msgs[Len(msgs)].role = "user"
        /\ \A i \in 1..(Len(msgs) - 1) : msgs[i].role # msgs[i + 1].role

\* trial.py issues a follow-up call of its second question on a history that the
\* window has cut.
C27_Witness ==
    /\ app = "trial"
    /\ pc = "call"
    /\ cycles = 2
    /\ iteration >= 1
    /\ Len(pre_api) > TrialWindow

\* C28: in trial.py the first model request after New carries nothing of the
\* questions asked before it: api_messages is empty, the request holds the new
\* question only, the display history holds no earlier answer, and the system
\* prompt has the 'New conversation' context (conversation_context is empty).
C28_NewForgetsEverything ==
    (app = "trial" /\ pc = "call" /\ iteration = 0 /\ last_button = "new") =>
        /\ api_messages = <<>>
        /\ msgs = FirstRequest(app, <<>>, user_input)
        /\ \A i \in 1..Len(messages) : messages[i].role = "user"
        /\ conversation_context = <<>>

\* C29: in Marketingapp.py a click on Ask with a non-empty question and an API
\* key set always starts a cycle, also when the text equals the previously
\* submitted question: no such click ends with the script run ignoring it.
C29_AskAlwaysStartsACycle ==
    (app = "Marketingapp" /\ api_key /\ user_input # <<>>) => outcome # "ignored"

\* The user turns of a display log.
UserTurns(log) == SelectSeq(log, LAMBDA m : m.role = "user")

\* C30: in Marketingapp.py and trial.py, whatever was submitted, rejected, failed
\* or reset, query_count is the number of user turns in the display log.
C30_CountIsUserTurns ==
    (app # "V1" /\ pc = "idle") => query_count = Len(UserTurns(messages))
====
